---- MODULE Spec2Model ----
\* The download-and-commit pipeline of youtube-file-sync: the SQS-triggered
\* downloader Lambda (lambda/youtube-downloader.ts), the completion table,
\* the video bucket and the queue with its dead-letter policy.
EXTENDS Integers, Sequences, FiniteSets, TLC

\* ---------------------------------------------------------------- bounds
MaxMsgs == 2          \* messages enqueued before the downloaders start
MaxBatch == 2         \* largest batch one invocation receives
MaxInvocations == 1   \* handler invocations one worker runs in one behaviour
MaxOver == 1          \* how far past TitleMaxLen the longest titles go

\* ------------------------------------------------------ program constants
maxReceiveCount == 3  \* deadLetterQueue.maxReceiveCount
TitleMaxLen == 100    \* substring(0, 100)
COOKIE_MAX_AGE_HOURS == 168  \* COOKIE_MAX_AGE_HOURS = '168'

Workers == {"w1", "w2"}
VideoIds == {"v1", "v2"}
\* mutant: two strategies listed in the wrong order
clientStrategiesSwapped == <<"ios", "web", "ios,web", "android_creator">>
clientStrategies == <<"ios", "ios,web", "web", "android_creator">>

\* A title is a string, modelled as its sequence of characters.
SomeTitle == <<"a", "/">>
AllowedChars == {"a", "b", "Z", "0", " ", "-"}

\* record.body as JSON.parse sees it: malformed text, an object without
\* videoId, or {videoId, title?}.
Bodies ==
    {[kind |-> "malformed", videoId |-> "", hasTitle |-> FALSE, title |-> <<>>],
     [kind |-> "noid", videoId |-> "", hasTitle |-> FALSE, title |-> <<>>]}
    \cup {[kind |-> "ok", videoId |-> v, hasTitle |-> TRUE, title |-> SomeTitle] : v \in VideoIds}
    \cup {[kind |-> "ok", videoId |-> "v2", hasTitle |-> FALSE, title |-> <<>>]}

\* Titles of many lengths, around TitleMaxLen too, made of letters, digits,
\* space, hyphen and of characters the key must not contain.
TitleChars == <<"a", "/", "Z", "0", "_", " ", "?", "-">>
TitleLens == {0, 1} \cup ((TitleMaxLen - 1)..(TitleMaxLen + MaxOver))
Title(n, k) == [i \in 1..n |-> TitleChars[((i + k) % Len(TitleChars)) + 1]]
Titles == {Title(n, k) : n \in TitleLens, k \in 1..Len(TitleChars)}
TitleBodies == {[kind |-> "ok", videoId |-> "v1", hasTitle |-> TRUE, title |-> t] : t \in Titles}

NoItem == [present |-> FALSE]
NoError == [kind |-> "none", client |-> ""]
Error(k, c) == [kind |-> k, client |-> c]
\* /tmp/cookies.txt does not exist
NoCookie == -1
\* ages in hours a local cookie file can have: around COOKIE_MAX_AGE_HOURS,
\* and 0 right after it was written
CookieAges == {0, COOKIE_MAX_AGE_HOURS - 1, COOKIE_MAX_AGE_HOURS, COOKIE_MAX_AGE_HOURS + 1}
\* how a refresh of the cookie file can end: done, or GetObjectCommand,
\* pipeline, renameSync or chmodSync throws
RefreshResults == {"ok", "readFailed", "streamFailed", "renameFailed", "chmodFailed"}

NoAttempt == [client |-> "", exit |-> "none", file |-> "none", stderr |-> FALSE,
              upload |-> "none", cookieBefore |-> NoCookie, reads |-> 0,
              refresh |-> "none", cookiesArg |-> FALSE, localSeen |-> {}]
NoObs == [lookups |-> 0, lookedUp |-> "none", spawned |-> <<>>, uploadsIssued |-> 0,
          uploadedBy |-> <<>>, inserts |-> 0, put |-> "none", metrics |-> <<>>,
          events |-> <<>>]

Min(a, b) == IF a < b THEN a ELSE b

VARIABLES
    queue,      \* the VideoDownloadQueue: message id -> body, receive count, state
    table,      \* the completion table: videoId -> item
    objects,    \* the video bucket: key -> number of completed uploads
    pc,         \* where each worker's handler invocation stands
    batch,      \* event.Records of the invocation, as message ids
    idx,        \* position of the for loop in event.Records
    s3Key,      \* the destination key computed for the current record
    strat,      \* index into clientStrategies inside downloadToS3
    tempFile,   \* whether /tmp/video_<ts>.mp4 exists on the worker
    attempt,    \* the attempt in progress or just finished
    err,        \* the error caught by the handler's catch
    outcome,    \* state each record of the batch ended in: skip, done, failed
                \* (its error reached the catch) or invalid (no videoId)
    obs,        \* what the current record has caused so far: calls made, what
                \* the table answered, metrics and log events emitted
    batchLog,   \* BatchStart / BatchComplete events of the invocation
    invocations,\* number of handler invocations each worker has started
    cookie,     \* age in hours of /tmp/cookies.txt on each worker, or NoCookie
    cookieTmp,  \* whether /tmp/cookies.txt.tmp exists on each worker
    cookieData  \* what /tmp/cookies.txt holds on each worker: nothing ("none"), a
                \* whole copy of the cookie object as it was ("old") or as it
                \* is now ("new"), or the beginning of one ("partial")

vars == <<queue, table, objects, pc, batch, idx, s3Key, strat, tempFile,
          attempt, err, outcome, obs, batchLog, invocations, cookie, cookieTmp,
          cookieData>>

\* ------------------------------------------------------------ pure helpers

\* mutant: the title is not cut
SafeTitleUncut(t) == [i \in 1..Len(t) |-> IF t[i] \in AllowedChars THEN t[i] ELSE "_"]
\* title.replace(/[^a-z0-9 -]/gi, '_').substring(0, 100)
SafeTitle(t) ==
    LET replaced == [i \in 1..Len(t) |-> IF t[i] \in AllowedChars THEN t[i] ELSE "_"]
    IN  SubSeq(replaced, 1, Min(Len(replaced), TitleMaxLen))

\* `videos/${safeTitle}_${videoId}.mp4`
S3Key(t, v) == [prefix |-> "videos/", safeTitle |-> SafeTitle(t), videoId |-> v, ext |-> ".mp4"]

NoKey == [prefix |-> "", safeTitle |-> <<>>, videoId |-> "", ext |-> ""]
\* the keys the messages of a set of bodies are stored under
Keys(bodies) == {S3Key(b.title, b.videoId) : b \in {x \in bodies : x.kind = "ok" /\ x.hasTitle}}
AllKeys == Keys(Bodies)

\* mutant: the put carries no condition
ConditionHoldsAlways(t, v) == TRUE
\* ConditionExpression: 'attribute_not_exists(videoId)'
ConditionHolds(t, v) == ~t[v].present

\* mutant: the result of the lookup is ignored
ExistingItemIgnored(t, v) == FALSE
\* existing.Item of the GetCommand
ExistingItem(t, v) == t[v].present

\* mutant: the size of the output file is not checked
DownloadOkNoSizeCheck(exit, file) == exit = "0"
\* close handler of the child plus the size check: the attempt goes on to the
\* upload only on exit code 0 and a non-empty output file
DownloadOk(exit, file) == exit = "0" /\ file = "data"

\* mutant: the temporary file is left where it is
CleanupSkipped(exists) == exists
\* finally of attemptDownload: if (fs.existsSync(tempFile)) fs.unlinkSync(tempFile);
\* whether the file exists afterwards
Cleanup(exists) == FALSE

\* validateEnv requires COOKIE_S3_KEY and BUCKET_NAME to be set
CookieConfigured == TRUE

\* mutant: a copy of exactly the maximum age counts as fresh
CookieFreshInclusive(c) == c # NoCookie /\ c <= COOKIE_MAX_AGE_HOURS
\* fs.existsSync(COOKIE_LOCAL_PATH) and ageHours < COOKIE_MAX_AGE_HOURS
CookieFresh(c) == c # NoCookie /\ c < COOKIE_MAX_AGE_HOURS

\* mutant: the partial temporary cookie file is left where it is
TmpLeftBehind(exists) == exists
\* catch of ensureCookieFileIfConfigured:
\* if (fs.existsSync(COOKIE_TMP_PATH)) fs.unlinkSync(COOKIE_TMP_PATH);
\* whether the file exists afterwards
TmpAfterCatch(exists) == FALSE

\* ensureCookieFileIfConfigured on a local copy of age c (or NoCookie) when the
\* refresh, if one is made, ends as r: the local copy and the temporary file
\* afterwards, and the number of GetObjectCommands sent
EnsureCookieFile(c, r) ==
    IF ~CookieConfigured
    THEN [local |-> c, tmp |-> FALSE, reads |-> 0, result |-> "unconfigured"]
    ELSE IF CookieFresh(c)
    THEN [local |-> c, tmp |-> FALSE, reads |-> 0, result |-> "fresh"]
    ELSE IF r = "readFailed"
    THEN [local |-> c, tmp |-> TmpAfterCatch(FALSE), reads |-> 1, result |-> r]
    ELSE IF r \in {"streamFailed", "renameFailed"}
    THEN [local |-> c, tmp |-> TmpAfterCatch(TRUE), reads |-> 1, result |-> r]
    ELSE IF r = "chmodFailed"
    THEN [local |-> 0, tmp |-> TmpAfterCatch(FALSE), reads |-> 1, result |-> r]
    ELSE [local |-> 0, tmp |-> FALSE, reads |-> 1, result |-> "ok"]

\* mutant: the download is streamed to COOKIE_LOCAL_PATH itself
StreamedInPlace(d, r) ==
    IF r = "readFailed" THEN <<d>>
    ELSE IF r = "streamFailed" THEN <<d, "partial">>
    ELSE <<d, "partial", "new">>
\* What COOKIE_LOCAL_PATH holds, one after the other, through a refresh that
\* ends as r when it held d before: pipeline writes to COOKIE_TMP_PATH and
\* renameSync puts the finished file in place.
LocalThroughRefresh(d, r) ==
    IF r \in {"ok", "chmodFailed"} THEN <<d, "new">> ELSE <<d>>

\* if (fs.existsSync(COOKIE_LOCAL_PATH)) args.push('--cookies', COOKIE_LOCAL_PATH)
CookiesArg(c) == c # NoCookie

\* mutant: after the third strategy the loop starts over
NextStrategyAgain(k) == IF k = 3 THEN 1 ELSE k + 1
\* for (const client of clientStrategies): the strategy after the k-th
NextStrategy(k) == k + 1

\* mutant: the last strategy is taken to be the one before it
IsLastStrategyOffByOne(k) == clientStrategies[k] = clientStrategies[Len(clientStrategies) - 1]
\* catch of downloadToS3: the error of the last strategy is rethrown
IsLastStrategy(k) == clientStrategies[k] = clientStrategies[Len(clientStrategies)]

\* what the handler does with an error caught while processing a record
Observe(w, f, x) == [obs EXCEPT ![w][f] = Append(@, x)]
Count(w, f) == [obs EXCEPT ![w][f] = @ + 1]

\* The processing that writes a record: the invocation and the message it is
\* handling (the record's downloadedAt tells one processing from another).
ThisRun(w) == <<w, invocations[w], batch[w][idx[w]]>>

CurBody(w) == queue[batch[w][idx[w]]].body

\* ---------------------------------------------------------------- Init

\* Messages wait in the queue, all fresh or all on their last delivery; the
\* table and the bucket are empty and every worker is idle.
InitQueue(n, contents) ==
    \E bs \in [1..n -> contents] :
       \E r \in {0, maxReceiveCount - 1} :
          queue = [m \in 1..n |-> [body |-> bs[m], receives |-> r, state |-> "visible"]]

InitRest ==
    /\ invocations = [w \in Workers |-> 0]
    /\ table = [v \in VideoIds |-> NoItem]
    /\ pc = [w \in Workers |-> "idle"]
    /\ batch = [w \in Workers |-> <<>>]
    /\ idx = [w \in Workers |-> 0]
    /\ s3Key = [w \in Workers |-> NoKey]
    /\ strat = [w \in Workers |-> 0]
    /\ tempFile = [w \in Workers |-> FALSE]
    /\ attempt = [w \in Workers |-> NoAttempt]
    /\ err = [w \in Workers |-> NoError]
    /\ outcome = [w \in Workers |-> <<>>]
    /\ obs = [w \in Workers |-> NoObs]
    /\ batchLog = [w \in Workers |-> <<>>]
    /\ cookieTmp = [w \in Workers |-> FALSE]

\* a warm worker holding a fresh cookie file
FreshCookie == COOKIE_MAX_AGE_HOURS - 1

\* one downloader, batches of any content
Init ==
    /\ \E n \in 1..MaxMsgs : InitQueue(n, Bodies)
    /\ InitRest
    /\ objects = [k \in AllKeys |-> 0]
    /\ cookie = [w \in Workers |-> FreshCookie]
    /\ cookieData = [w \in Workers |-> "old"]

\* concurrent downloaders, one well-formed message for each
InitRace ==
    /\ InitQueue(Cardinality(Workers), {b \in Bodies : b.kind = "ok"})
    /\ InitRest
    /\ objects = [k \in AllKeys |-> 0]
    /\ cookie = [w \in Workers |-> FreshCookie]
    /\ cookieData = [w \in Workers |-> "old"]

\* one downloader and one message whose title is any of Titles
InitTitle ==
    /\ InitQueue(1, TitleBodies)
    /\ InitRest
    /\ objects = [k \in Keys(TitleBodies) |-> 0]
    /\ cookie = [w \in Workers |-> FreshCookie]
    /\ cookieData = [w \in Workers |-> "old"]

\* one downloader whose cookie file is absent, fresh, of exactly the maximum
\* age or older, and one well-formed message
InitCookie ==
    /\ InitQueue(1, {b \in Bodies : b.kind = "ok"})
    /\ InitRest
    /\ objects = [k \in AllKeys |-> 0]
    /\ \E c \in {NoCookie} \cup (CookieAges \ {0}) :
         /\ cookie = [w \in Workers |-> c]
         /\ cookieData = [w \in Workers |-> IF c = NoCookie THEN "none" ELSE "old"]

\* ------------------------------------------------------------- transport

Visible == {m \in DOMAIN queue : queue[m].state = "visible" /\ queue[m].receives < maxReceiveCount}

\* the n visible messages with the smallest ids, in id order
RECURSIVE FirstVisible(_, _)
FirstVisible(n, from) ==
    IF n = 0 \/ from > Len(queue) THEN <<>>
    ELSE IF from \in Visible THEN <<from>> \o FirstVisible(n - 1, from + 1)
    ELSE FirstVisible(n, from + 1)

InBatch(w, m) == \E i \in 1..Len(batch[w]) : batch[w][i] = m

\* The event source polls the queue and invokes the handler with a batch;
\* the handler logs BatchStart.
Receive(w) ==
    /\ pc[w] = "idle"
    /\ invocations[w] < MaxInvocations
    /\ invocations' = [invocations EXCEPT ![w] = @ + 1]
    /\ \E n \in 1..Min(MaxBatch, Cardinality(Visible)) :
         LET b == FirstVisible(n, 1) IN
         /\ batch' = [batch EXCEPT ![w] = b]
         /\ queue' = [m \in DOMAIN queue |->
                        IF \E i \in 1..Len(b) : b[i] = m
                        THEN [queue[m] EXCEPT !.receives = @ + 1, !.state = "inflight"]
                        ELSE queue[m]]
    /\ pc' = [pc EXCEPT ![w] = "loop"]
    /\ idx' = [idx EXCEPT ![w] = 0]
    /\ outcome' = [outcome EXCEPT ![w] = <<>>]
    /\ obs' = [obs EXCEPT ![w] = NoObs]
    /\ batchLog' = [batchLog EXCEPT ![w] = <<"BatchStart">>]
    /\ UNCHANGED <<table, objects, s3Key, strat, tempFile, attempt, err, cookie, cookieTmp, cookieData>>

\* The invocation returned normally: the event source deletes the whole batch.
DeleteBatch(w) ==
    /\ UNCHANGED <<invocations, cookie, cookieTmp, cookieData>>
    /\ pc[w] = "returned"
    /\ queue' = [m \in DOMAIN queue |->
                   IF InBatch(w, m) THEN [queue[m] EXCEPT !.state = "deleted"] ELSE queue[m]]
    /\ pc' = [pc EXCEPT ![w] = "idle"]
    /\ batch' = [batch EXCEPT ![w] = <<>>]
    /\ idx' = [idx EXCEPT ![w] = 0]
    /\ outcome' = [outcome EXCEPT ![w] = <<>>]
    /\ obs' = [obs EXCEPT ![w] = NoObs]
    /\ batchLog' = [batchLog EXCEPT ![w] = <<>>]
    /\ err' = [err EXCEPT ![w] = NoError]
    /\ s3Key' = [s3Key EXCEPT ![w] = NoKey]
    /\ strat' = [strat EXCEPT ![w] = 0]
    /\ attempt' = [attempt EXCEPT ![w] = NoAttempt]
    /\ UNCHANGED <<table, objects, tempFile>>

\* The invocation failed: the batch becomes visible again after the
\* visibility timeout.
ReturnBatch(w) ==
    /\ UNCHANGED <<invocations, cookie, cookieTmp, cookieData>>
    /\ pc[w] = "raised"
    /\ queue' = [m \in DOMAIN queue |->
                   IF InBatch(w, m) THEN [queue[m] EXCEPT !.state = "visible"] ELSE queue[m]]
    /\ pc' = [pc EXCEPT ![w] = "idle"]
    /\ batch' = [batch EXCEPT ![w] = <<>>]
    /\ idx' = [idx EXCEPT ![w] = 0]
    /\ outcome' = [outcome EXCEPT ![w] = <<>>]
    /\ obs' = [obs EXCEPT ![w] = NoObs]
    /\ batchLog' = [batchLog EXCEPT ![w] = <<>>]
    /\ err' = [err EXCEPT ![w] = NoError]
    /\ s3Key' = [s3Key EXCEPT ![w] = NoKey]
    /\ strat' = [strat EXCEPT ![w] = 0]
    /\ attempt' = [attempt EXCEPT ![w] = NoAttempt]
    /\ UNCHANGED <<table, objects, tempFile>>

\* A message received maxReceiveCount times without being deleted goes to
\* the dead-letter queue.
MoveToDLQ(m) ==
    /\ UNCHANGED <<invocations, cookie, cookieTmp, cookieData>>
    /\ queue[m].state = "visible"
    /\ queue[m].receives >= maxReceiveCount
    /\ queue' = [queue EXCEPT ![m].state = "dlq"]
    /\ UNCHANGED <<table, objects, pc, batch, idx, s3Key, strat, tempFile,
                   attempt, err, outcome, obs, batchLog>>

\* Time passes and the cookie file on a worker grows older.
TimePasses(w) ==
    /\ cookie[w] # NoCookie
    /\ \E a \in CookieAges :
         /\ a > cookie[w]
         /\ cookie' = [cookie EXCEPT ![w] = a]
    /\ UNCHANGED <<queue, table, objects, pc, batch, idx, s3Key, strat, tempFile,
                   attempt, err, outcome, obs, batchLog, invocations, cookieTmp,
                   cookieData>>

\* --------------------------------------------------------------- handler

\* an error thrown inside the try block of the handler reaches its catch
Throw(w, e) ==
    /\ pc' = [pc EXCEPT ![w] = "catch"]
    /\ err' = [err EXCEPT ![w] = e]
    /\ outcome' = [outcome EXCEPT ![w] = Append(@, "failed")]

\* mutant: the loop does not wait for the record before (its download is not
\* awaited)
NextRecordUnawaited(w) ==
    /\ UNCHANGED <<invocations, cookie, cookieTmp, cookieData>>
    /\ pc[w] \in {"loop", "running", "upload"}
    /\ idx[w] < Len(batch[w])
    /\ idx' = [idx EXCEPT ![w] = @ + 1]
    /\ pc' = [pc EXCEPT ![w] = "parse"]
    /\ obs' = [obs EXCEPT ![w] = NoObs]
    /\ err' = [err EXCEPT ![w] = NoError]
    /\ s3Key' = [s3Key EXCEPT ![w] = NoKey]
    /\ strat' = [strat EXCEPT ![w] = 0]
    /\ attempt' = [attempt EXCEPT ![w] = NoAttempt]
    /\ UNCHANGED <<queue, table, objects, batch, tempFile, outcome, batchLog>>
\* for (const record of event.Records): the next record, videoId = '', title = ''
NextRecord(w) ==
    /\ UNCHANGED <<invocations, cookie, cookieTmp, cookieData>>
    /\ pc[w] = "loop"
    /\ idx[w] < Len(batch[w])
    /\ idx' = [idx EXCEPT ![w] = @ + 1]
    /\ pc' = [pc EXCEPT ![w] = "parse"]
    /\ obs' = [obs EXCEPT ![w] = NoObs]
    /\ err' = [err EXCEPT ![w] = NoError]
    /\ s3Key' = [s3Key EXCEPT ![w] = NoKey]
    /\ strat' = [strat EXCEPT ![w] = 0]
    /\ attempt' = [attempt EXCEPT ![w] = NoAttempt]
    /\ UNCHANGED <<queue, table, objects, batch, tempFile, outcome, batchLog>>

\* the loop is over: log('BatchComplete') and the handler returns
BatchComplete(w) ==
    /\ UNCHANGED <<invocations, cookie, cookieTmp, cookieData>>
    /\ pc[w] = "loop"
    /\ idx[w] = Len(batch[w])
    /\ batchLog' = [batchLog EXCEPT ![w] = Append(@, "BatchComplete")]
    /\ pc' = [pc EXCEPT ![w] = "returned"]
    /\ UNCHANGED <<queue, table, objects, batch, idx, s3Key, strat, tempFile,
                   attempt, err, outcome, obs>>

\* JSON.parse(record.body) and the videoId check
ParseMessage(w) ==
    /\ UNCHANGED <<invocations, cookie, cookieTmp, cookieData>>
    /\ pc[w] = "parse"
    /\ IF CurBody(w).kind = "malformed"
       THEN /\ Throw(w, Error("SyntaxError", ""))
            /\ UNCHANGED obs
       ELSE IF CurBody(w).kind = "noid"
       THEN \* log('InvalidMessage'); return;
            /\ obs' = Observe(w, "events", "InvalidMessage")
            /\ outcome' = [outcome EXCEPT ![w] = Append(@, "invalid")]
            /\ pc' = [pc EXCEPT ![w] = "returned"]
            /\ UNCHANGED err
       ELSE /\ pc' = [pc EXCEPT ![w] = "lookup"]
            /\ UNCHANGED <<obs, outcome, err>>
    /\ UNCHANGED <<queue, table, objects, batch, idx, s3Key, strat, tempFile,
                   attempt, batchLog>>

\* what the table answers to the GetCommand for the current record
Answer(w) == IF table[CurBody(w).videoId].present THEN "present" ELSE "absent"

\* GetCommand on the table, the skip of an existing item, and the key
Lookup(w) ==
    /\ UNCHANGED <<invocations, cookie, cookieTmp, cookieData>>
    /\ pc[w] = "lookup"
    /\ \E ok \in BOOLEAN :
         IF ~ok
         THEN /\ Throw(w, Error("GetFailed", ""))
              /\ obs' = [obs EXCEPT ![w].lookups = @ + 1, ![w].lookedUp = "failed"]
              /\ UNCHANGED <<s3Key, strat>>
         ELSE IF ExistingItem(table, CurBody(w).videoId)
         THEN \* Skipping already downloaded video; continue
              /\ obs' = [obs EXCEPT ![w].lookups = @ + 1, ![w].lookedUp = Answer(w)]
              /\ outcome' = [outcome EXCEPT ![w] = Append(@, "skip")]
              /\ pc' = [pc EXCEPT ![w] = "loop"]
              /\ UNCHANGED <<err, s3Key, strat>>
         ELSE IF ~CurBody(w).hasTitle
         THEN \* title.replace on undefined
              /\ Throw(w, Error("TypeError", ""))
              /\ obs' = [obs EXCEPT ![w].lookups = @ + 1, ![w].lookedUp = Answer(w)]
              /\ UNCHANGED <<s3Key, strat>>
         ELSE /\ s3Key' = [s3Key EXCEPT ![w] = S3Key(CurBody(w).title, CurBody(w).videoId)]
              /\ strat' = [strat EXCEPT ![w] = 1]
              /\ pc' = [pc EXCEPT ![w] = "download"]
              /\ obs' = [obs EXCEPT ![w].lookups = @ + 1, ![w].lookedUp = Answer(w)]
              /\ UNCHANGED <<outcome, err>>
    /\ UNCHANGED <<queue, table, objects, batch, idx, tempFile, attempt, batchLog>>

\* attemptDownload up to the spawn of yt-dlp with the current player client
AttemptStart(w) ==
    /\ UNCHANGED invocations
    /\ pc[w] = "download"
    /\ \E r \in RefreshResults :
         LET e == EnsureCookieFile(cookie[w], r)
             held == IF e.reads = 0 THEN <<cookieData[w]>>
                     ELSE LocalThroughRefresh(cookieData[w], r)
         IN
         /\ cookieData' = [cookieData EXCEPT ![w] = held[Len(held)]]
         /\ CookieFresh(cookie[w]) => r = "ok"
         /\ cookie' = [cookie EXCEPT ![w] = e.local]
         /\ cookieTmp' = [cookieTmp EXCEPT ![w] = e.tmp]
         /\ attempt' = [attempt EXCEPT ![w] =
                          [client |-> clientStrategies[strat[w]], exit |-> "running",
                           file |-> "none", stderr |-> FALSE, upload |-> "none",
                           cookieBefore |-> cookie[w], reads |-> e.reads,
                           refresh |-> e.result, cookiesArg |-> CookiesArg(e.local),
                           localSeen |-> {held[i] : i \in 1..Len(held)}]]
    /\ obs' = Observe(w, "spawned", clientStrategies[strat[w]])
    /\ pc' = [pc EXCEPT ![w] = "running"]
    /\ UNCHANGED <<queue, table, objects, batch, idx, s3Key, strat, tempFile,
                   err, outcome, batchLog>>

\* mutant: the error of the last strategy is not rethrown, downloadToS3 returns
AttemptFailedNoRethrow(w, e, written) ==
    /\ tempFile' = [tempFile EXCEPT ![w] = Cleanup(written)]
    /\ IF IsLastStrategy(strat[w])
       THEN /\ pc' = [pc EXCEPT ![w] = "insert"]
            /\ UNCHANGED <<strat, err, outcome>>
       ELSE /\ strat' = [strat EXCEPT ![w] = NextStrategy(@)]
            /\ pc' = [pc EXCEPT ![w] = "download"]
            /\ UNCHANGED <<err, outcome>>
\* mutant: any failed attempt ends downloadToS3, whatever the strategy
AttemptFailedFatal(w, e, written) ==
    /\ tempFile' = [tempFile EXCEPT ![w] = Cleanup(written)]
    /\ Throw(w, e)
    /\ UNCHANGED strat
\* the attempt threw: finally removes the temporary file, downloadToS3 goes
\* on to the next strategy or rethrows the error of the last one
AttemptFailed(w, e, written) ==
    /\ tempFile' = [tempFile EXCEPT ![w] = Cleanup(written)]
    /\ IF IsLastStrategy(strat[w])
       THEN /\ Throw(w, e)
            /\ UNCHANGED strat
       ELSE /\ strat' = [strat EXCEPT ![w] = NextStrategy(@)]
            /\ pc' = [pc EXCEPT ![w] = "download"]
            /\ UNCHANGED <<err, outcome>>

\* what a run of yt-dlp can end as: a spawn error (no process, no output), exit
\* code 0 with the output file absent, empty or holding data and with or
\* without lines on stderr, or a non-zero exit code, reported on stderr, with
\* the output file absent or partly written
SubprocessResults ==
    {[exit |-> "error", file |-> "absent", stderr |-> FALSE]}
    \cup [exit : {"0"}, file : {"absent", "empty", "data"}, stderr : BOOLEAN]
    \cup [exit : {"1"}, file : {"absent", "data"}, stderr : {TRUE}]

\* child 'error' / 'close', then fs.statSync(tempFile) and the size check
SubprocessExit(w) ==
    /\ UNCHANGED <<invocations, cookie, cookieTmp, cookieData>>
    /\ pc[w] = "running"
    /\ \E r \in SubprocessResults :
         /\ attempt' = [attempt EXCEPT ![w].exit = r.exit, ![w].file = r.file,
                                        ![w].stderr = r.stderr]
         /\ IF DownloadOk(r.exit, r.file)
            THEN /\ tempFile' = [tempFile EXCEPT ![w] = TRUE]
                 /\ pc' = [pc EXCEPT ![w] = "upload"]
                 /\ UNCHANGED <<strat, err, outcome>>
            ELSE AttemptFailed(w, Error(IF r.exit = "0" THEN "EmptyFile"
                                        ELSE IF r.exit = "error" THEN "SpawnError"
                                        ELSE "ExitCode", clientStrategies[strat[w]]),
                               r.file # "absent")
    /\ UNCHANGED <<queue, table, objects, batch, idx, s3Key, obs, batchLog>>

\* upload.done() and the finally of attemptDownload
UploadDone(w) ==
    /\ UNCHANGED <<invocations, cookie, cookieTmp, cookieData>>
    /\ pc[w] = "upload"
    /\ \E ok \in BOOLEAN :
         IF ok
         THEN /\ objects' = [objects EXCEPT ![s3Key[w]] = @ + 1]
              /\ obs' = [obs EXCEPT ![w].uploadsIssued = @ + 1,
                                    ![w].uploadedBy = Append(@, clientStrategies[strat[w]])]
              /\ attempt' = [attempt EXCEPT ![w].upload = "ok"]
              /\ tempFile' = [tempFile EXCEPT ![w] = Cleanup(tempFile[w])]
              /\ pc' = [pc EXCEPT ![w] = "insert"]
              /\ UNCHANGED <<strat, err, outcome>>
         ELSE /\ obs' = Count(w, "uploadsIssued")
              /\ attempt' = [attempt EXCEPT ![w].upload = "failed"]
              /\ AttemptFailed(w, Error("UploadFailed", clientStrategies[strat[w]]),
                               tempFile[w])
              /\ UNCHANGED objects
    /\ UNCHANGED <<queue, table, batch, idx, s3Key, batchLog>>

\* PutCommand with ConditionExpression attribute_not_exists(videoId)
Insert(w) ==
    /\ UNCHANGED <<invocations, cookie, cookieTmp, cookieData>>
    /\ pc[w] = "insert"
    /\ \E ok \in BOOLEAN :
         IF ~ok
         THEN /\ Throw(w, Error("PutFailed", ""))
              /\ obs' = [obs EXCEPT ![w].inserts = @ + 1, ![w].put = "failed"]
              /\ UNCHANGED table
         ELSE IF ConditionHolds(table, CurBody(w).videoId)
         THEN /\ table' = [table EXCEPT ![CurBody(w).videoId] =
                             [present |-> TRUE, title |-> CurBody(w).title,
                              s3Key |-> s3Key[w], by |-> ThisRun(w)]]
              /\ obs' = [obs EXCEPT ![w].inserts = @ + 1, ![w].put = "ok"]
              /\ pc' = [pc EXCEPT ![w] = "metricVD"]
              /\ UNCHANGED <<err, outcome>>
         ELSE /\ Throw(w, Error("ConditionalCheckFailed", ""))
              /\ obs' = [obs EXCEPT ![w].inserts = @ + 1, ![w].put = "rejected"]
              /\ UNCHANGED table
    /\ attempt' = [attempt EXCEPT ![w] = NoAttempt]
    /\ UNCHANGED <<queue, objects, batch, idx, s3Key, strat, tempFile, batchLog>>

\* await recordMetric('VideosDownloaded', 1)
MetricDownloaded(w) ==
    /\ UNCHANGED <<invocations, cookie, cookieTmp, cookieData>>
    /\ pc[w] = "metricVD"
    /\ \E ok \in BOOLEAN :
         IF ok
         THEN /\ obs' = Observe(w, "metrics", "VideosDownloaded")
              /\ pc' = [pc EXCEPT ![w] = "metricDD"]
              /\ UNCHANGED <<err, outcome>>
         ELSE /\ Throw(w, Error("MetricFailed", ""))
              /\ UNCHANGED obs
    /\ UNCHANGED <<queue, table, objects, batch, idx, s3Key, strat, tempFile,
                   attempt, batchLog>>

\* await recordMetric('DownloadDuration', ...); log('DownloadSuccess')
MetricDuration(w) ==
    /\ UNCHANGED <<invocations, cookie, cookieTmp, cookieData>>
    /\ pc[w] = "metricDD"
    /\ \E ok \in BOOLEAN :
         IF ok
         THEN /\ obs' = [obs EXCEPT ![w].metrics = Append(@, "DownloadDuration"),
                                    ![w].events = Append(@, "DownloadSuccess")]
              /\ outcome' = [outcome EXCEPT ![w] = Append(@, "done")]
              /\ pc' = [pc EXCEPT ![w] = "loop"]
              /\ UNCHANGED err
         ELSE /\ Throw(w, Error("MetricFailed", ""))
              /\ UNCHANGED obs
    /\ UNCHANGED <<queue, table, objects, batch, idx, s3Key, strat, tempFile,
                   attempt, batchLog>>

\* catch (err): await recordMetric('DownloadFailures', 1); log('DownloadError')
CatchError(w) ==
    /\ UNCHANGED <<invocations, cookie, cookieTmp, cookieData>>
    /\ pc[w] = "catch"
    /\ \E ok \in BOOLEAN :
         IF ok
         THEN /\ obs' = [obs EXCEPT ![w].metrics = Append(@, "DownloadFailures"),
                                    ![w].events = Append(@, "DownloadError")]
              /\ pc' = [pc EXCEPT ![w] = "loop"]
              /\ err' = [err EXCEPT ![w] = NoError]
         ELSE \* recordMetric rejects inside the catch: the handler rejects with it
              /\ pc' = [pc EXCEPT ![w] = "raised"]
              /\ err' = [err EXCEPT ![w] = Error("MetricFailed", "")]
              /\ UNCHANGED obs
    /\ attempt' = [attempt EXCEPT ![w] = NoAttempt]
    /\ UNCHANGED <<queue, table, objects, batch, idx, s3Key, strat, tempFile,
                   outcome, batchLog>>

Step(w) ==
         \/ Receive(w)
         \/ NextRecord(w)
         \/ ParseMessage(w)
         \/ Lookup(w)
         \/ AttemptStart(w)
         \/ SubprocessExit(w)
         \/ UploadDone(w)
         \/ Insert(w)
         \/ MetricDownloaded(w)
         \/ MetricDuration(w)
         \/ CatchError(w)
         \/ BatchComplete(w)
         \/ DeleteBatch(w)
         \/ ReturnBatch(w)

\* one downloader at a time (the event source runs a single invocation)
Next ==
    \/ Step("w1")
    \/ \E m \in DOMAIN queue : MoveToDLQ(m)

\* the event source runs the downloaders concurrently
NextRace ==
    \/ \E w \in Workers : Step(w)
    \/ \E m \in DOMAIN queue : MoveToDLQ(m)

Spec == Init /\ [][Next]_vars

SpecRace == InitRace /\ [][NextRace]_vars

\* one downloader while its cookie file ages
NextCookie ==
    \/ Step("w1")
    \/ TimePasses("w1")
    \/ \E m \in DOMAIN queue : MoveToDLQ(m)

SpecCookie == InitCookie /\ [][NextCookie]_vars

SpecTitle == InitTitle /\ [][Next]_vars

\* every call the handler awaits returns, and the event source takes the
\* batch back once the invocation is over
SpecLive == Init /\ [][Next]_vars /\ WF_vars(Step("w1"))

\* ================================================================ claims

Range(q) == {q[i] : i \in 1..Len(q)}

\* the record a worker is processing and the state it ended in, once it has one
Processing(w) == idx[w] >= 1 /\ idx[w] <= Len(batch[w])
CurId(w) == CurBody(w).videoId
Ended(w) == Processing(w) /\ Len(outcome[w]) = idx[w]
EndedAs(w, o) == Ended(w) /\ outcome[w][idx[w]] = o

\* C1: when two concurrent invocations process the same new videoId and both
\* fetches succeed, the table ends with one record for the id, and the
\* invocation whose conditional insert is rejected lets no error escape the
\* handler and neither creates nor overwrites the record.
C1_RaceSafety ==
    \A w \in Workers :
        obs[w].put = "rejected" =>
            /\ pc[w] # "raised"
            /\ table[CurId(w)].present
            /\ table[CurId(w)].by # ThisRun(w)

\* C2: a conditional insert rejected because the record already exists is a
\* success of the item: it ends done, DownloadFailures is not emitted and
\* DownloadError is not logged for it.
C2_RejectedInsertIsSuccess ==
    \A w \in Workers :
        obs[w].put = "rejected" =>
            /\ EndedAs(w, "done")
            /\ "DownloadFailures" \notin Range(obs[w].metrics)
            /\ "DownloadError" \notin Range(obs[w].events)

\* C3: an item whose id has a record when the lookup reads the table causes no
\* subprocess, no upload, no insert and no success or failure metric, so a
\* second run for an id whose first run committed leaves the one record in
\* place and fetches nothing.
C3_ExistingItemSkipped ==
    \A w \in Workers :
        obs[w].lookedUp = "present" =>
            /\ obs[w].spawned = <<>>
            /\ obs[w].uploadsIssued = 0
            /\ obs[w].inserts = 0
            /\ obs[w].metrics = <<>>
            /\ EndedAs(w, "skip")
            /\ table[CurId(w)].present
            /\ table[CurId(w)].by # ThisRun(w)

\* C3 witness: the second of two messages for one id is skipped after the
\* first was downloaded and recorded in the same sequence of runs.
C3_Witness ==
    /\ obs["w1"].lookedUp = "present"
    /\ outcome["w1"] = <<"done", "skip">>
    /\ table[CurId("w1")].by = <<"w1", invocations["w1"], batch["w1"][1]>>

\* C4: the handler never raises, whatever fails: parsing, the lookup, the
\* fetch, the insert or the metrics sink, the metric emitted in the catch
\* included.
C4_HandlerNeverRaises == \A w \in Workers : pc[w] # "raised"

\* the record's processing threw in the lookup, the fetch or the insert
ThrewInLookupFetchCommit(w) ==
    \/ obs[w].lookedUp = "failed"
    \/ obs[w].spawned # <<>> /\ obs[w].put \in {"none", "failed"}

InvocationOver(w) == pc[w] \in {"returned", "raised"}

\* C5: when the processing of an item of a batch throws an unexpected error
\* (in lookup, fetch or commit), every other item of the batch, before and
\* after it, has reached a terminal state when the invocation is over.
C5_BatchIsolation ==
    \A w \in Workers :
        InvocationOver(w) =>
            \A i \in 1..Len(outcome[w]) :
                (/\ outcome[w][i] = "failed"
                 /\ i = idx[w] => ThrewInLookupFetchCommit(w))
                => \A j \in (1..Len(batch[w])) \ {i} :
                       /\ j <= Len(outcome[w])
                       /\ outcome[w][j] \in {"skip", "done", "failed", "invalid"}

\* C6: a message without videoId is logged and skipped without raising, and
\* every item after it in the batch is still processed to a terminal state.
C6_InvalidMessageSkipped ==
    \A w \in Workers :
        InvocationOver(w) =>
            \A i \in 1..Len(outcome[w]) :
                outcome[w][i] = "invalid" =>
                    /\ pc[w] # "raised"
                    /\ "InvalidMessage" \in Range(obs[w].events)
                    /\ \A j \in (i + 1)..Len(batch[w]) : j <= Len(outcome[w])

\* C7: an item whose fetch or commit failed is left to the queue: the
\* invocation does not acknowledge its message, so the message is never
\* deleted as if it had been processed (it is redelivered, and goes to the
\* dead-letter queue after maxReceiveCount receives).
C7_FailedItemLeftToQueue ==
    [][\A w \in Workers :
          (/\ InvocationOver(w)
           /\ EndedAs(w, "failed")
           /\ obs[w].spawned # <<>>
           /\ obs[w].put \in {"none", "failed"})
          => queue'[batch[w][idx[w]]].state # "deleted"]_vars

\* the order of the strategies as the specification fixes it
FixedOrder == <<"ios", "ios,web", "web", "android_creator">>
IndexOf(c) == CHOOSE i \in 1..Len(FixedOrder) : FixedOrder[i] = c

FetchReturned(w) == pc[w] \notin {"download", "running", "upload"}

\* C8: in one fetch the strategies are attempted in the order ios, ios,web,
\* web, android_creator and the first success ends the loop: when strategy k
\* succeeds after 1..k-1 failed, the subprocess ran exactly k times in that
\* order, one upload completed, made by strategy k, no later strategy was
\* attempted and fetch returned success.
C8_StrategyFallback ==
    \A w \in Workers :
        /\ Len(obs[w].spawned) <= Len(FixedOrder)
        /\ obs[w].spawned = SubSeq(FixedOrder, 1, Len(obs[w].spawned))
        /\ Len(obs[w].uploadedBy) <= 1
        /\ obs[w].uploadedBy # <<>> =>
              /\ obs[w].uploadedBy[1] = obs[w].spawned[Len(obs[w].spawned)]
              /\ FetchReturned(w)
        /\ pc[w] = "insert" =>
              /\ obs[w].uploadedBy = <<FixedOrder[strat[w]]>>
              /\ Len(obs[w].spawned) = strat[w]
              /\ ~EndedAs(w, "failed")

\* C8 witness: strategies 1 to 3 failed and the fourth succeeded.
C8_Witness ==
    /\ pc["w1"] = "insert"
    /\ obs["w1"].spawned = FixedOrder
    /\ obs["w1"].uploadedBy = <<"android_creator">>

\* the fetch of the current record threw: the record failed after a subprocess
\* ran and before any insert
FetchFailed(w) == EndedAs(w, "failed") /\ obs[w].spawned # <<>> /\ obs[w].inserts = 0

FetchErrors == {"SpawnError", "ExitCode", "EmptyFile", "UploadFailed"}

ResultIn(w) == attempt[w].exit \in {"0", "1", "error"}
ReachedUpload(w) == pc[w] = "upload" \/ attempt[w].upload # "none"

\* what a failed attempt leaves: no upload, no temporary file, and the next
\* strategy about to run, or after the last one the error on its way to the
\* handler
NoUploadNextStrategy(w) ==
    /\ ~ReachedUpload(w)
    /\ ~tempFile[w]
    /\ IF attempt[w].client = FixedOrder[Len(FixedOrder)]
       THEN pc[w] = "catch" /\ err[w].client = attempt[w].client
       ELSE /\ pc[w] = "download"
            /\ clientStrategies[strat[w]] = FixedOrder[IndexOf(attempt[w].client) + 1]

\* C10: an attempt reaches the upload exactly when the subprocess exited with
\* code 0 and the output file is non-empty, whatever was written to stderr;
\* exit code 0 with an empty file has the effect of a non-zero exit: no
\* upload, temporary file deleted, attempt failed, next strategy tried.
C10_UploadIffExitZeroNonEmpty ==
    \A w \in Workers :
        ResultIn(w) =>
            /\ ReachedUpload(w) <=> (attempt[w].exit = "0" /\ attempt[w].file = "data")
            /\ (attempt[w].exit = "0" /\ attempt[w].file = "empty") => NoUploadNextStrategy(w)
            /\ attempt[w].exit = "1" => NoUploadNextStrategy(w)

\* C10 witness: exit code 0, stderr lines, an empty file: the next strategy is up.
C10_Witness ==
    /\ attempt["w1"].exit = "0"
    /\ attempt["w1"].file = "empty"
    /\ attempt["w1"].stderr
    /\ pc["w1"] = "download"
    /\ strat["w1"] = 2


\* an attempt of the worker is between its spawn and the end of attemptDownload
AttemptInProgress(w) == pc[w] \in {"running", "upload"}

\* C11: the temporary payload file of an attempt is deleted on every exit
\* path of attemptDownload, so whenever no attempt is in progress on a worker
\* no temporary payload file exists there.
C11_TempFileDeleted == \A w \in Workers : ~AttemptInProgress(w) => ~tempFile[w]

\* C11 witness: an attempt whose subprocess wrote data and exited non-zero has
\* ended, and another one whose upload failed has ended.
C11_Witness ==
    /\ ~AttemptInProgress("w1")
    /\ attempt["w1"].file = "data"
    /\ \/ attempt["w1"].exit = "1"
       \/ attempt["w1"].upload = "failed"
    /\ "ios,web" \in Range(obs["w1"].spawned)

\* the call of ensureCookieFileIfConfigured made by the worker's latest attempt
Ensured(w) == attempt[w].refresh # "none"

\* C12: a call of ensureCookieFileIfConfigured reads the authoritative copy
\* not at all when the local copy exists and is younger than the maximum age,
\* and exactly once when it is absent or of the maximum age or older; so the
\* call that follows a successful refresh (the copy then has age 0) reads
\* nothing.
C12_ReadOnlyWhenStale ==
    \A w \in Workers :
        Ensured(w) =>
            LET c == attempt[w].cookieBefore IN
            /\ (c # NoCookie /\ c < COOKIE_MAX_AGE_HOURS) => attempt[w].reads = 0
            /\ (c = NoCookie \/ c >= COOKIE_MAX_AGE_HOURS) => attempt[w].reads = 1

\* C12 witness: the first strategy's call refreshed the copy (no copy of age 0
\* exists before a refresh) and the second strategy's call read nothing.
C12_Witness ==
    /\ Ensured("w1")
    /\ attempt["w1"].cookieBefore = 0
    /\ attempt["w1"].reads = 0
    /\ strat["w1"] = 2

RefreshFailed(w) == attempt[w].refresh \in {"readFailed", "streamFailed", "renameFailed"}

\* C13: a failure of the read, of the streaming or of the rename never leaves
\* ensureCookieFileIfConfigured: the attempt that called it spawns the
\* subprocess, and no temporary cookie file is left.
C13_RefreshFailureContained ==
    \A w \in Workers :
        /\ ~cookieTmp[w]
        /\ RefreshFailed(w) =>
              /\ attempt[w].exit # "none"
              /\ obs[w].spawned # <<>>
              /\ obs[w].spawned[Len(obs[w].spawned)] = attempt[w].client

\* C13 witness: the streaming to the temporary path failed and the
\* subprocess is running.
C13_Witness ==
    /\ attempt["w1"].refresh = "streamFailed"
    /\ pc["w1"] = "running"

\* C14: the subprocess is given the cookie path only when the local copy is
\* younger than the maximum age when it is spawned; with a stale copy and a
\* failed refresh it is spawned without one.
C14_StaleCookieNeverPassed ==
    \A w \in Workers :
        (Ensured(w) /\ attempt[w].cookiesArg) =>
            \/ CookieFresh(attempt[w].cookieBefore)
            \/ attempt[w].refresh \in {"ok", "chmodFailed"}


\* C15: the table holds one record per id (it is keyed by videoId), and once
\* a record for an id exists no handler step of any worker changes or removes it.
C15_RecordWrittenOnce ==
    [][\A v \in VideoIds : table[v].present => table'[v] = table[v]]_vars

\* C15 witness: both workers ran the put for one id; the record is the first one's.
C15_Witness ==
    \E w \in Workers : \E u \in Workers \ {w} :
        /\ obs[w].put = "ok"
        /\ obs[u].put = "rejected"
        /\ CurId(w) = CurId(u)
        /\ table[CurId(w)].by = ThisRun(w)

\* C16: a message with a videoId and no title is treated like a titled one:
\* when the table has no record for it, it goes on to the fetch, and the
\* missing title alone never makes it fail.
C16_UntitledAccepted ==
    \A w \in Workers :
        (Processing(w) /\ CurBody(w).kind = "ok" /\ ~CurBody(w).hasTitle
            /\ obs[w].lookedUp = "absent") =>
            /\ obs[w].spawned # <<>> \/ pc[w] = "download"
            /\ err[w].kind # "TypeError"

KeyChars == {"a", "b", "Z", "0", " ", "-", "_"}

\* C17: the sanitized title in the key is at most 100 long and made of
\* letters, digits, space, hyphen and underscore only; it is the title cut to
\* its first 100 characters with every other character replaced, one for
\* one, by an underscore; the key is videos/<sanitized title>_<videoId>.mp4.
C17_SafeKey ==
    \A w \in Workers :
        s3Key[w] # NoKey =>
            LET t == CurBody(w).title
                k == s3Key[w].safeTitle
            IN  /\ Len(k) <= 100
                /\ Len(k) = Min(Len(t), 100)
                /\ \A i \in 1..Len(k) :
                      /\ k[i] \in KeyChars
                      /\ t[i] \in KeyChars \ {"_"} => k[i] = t[i]
                      /\ t[i] \notin KeyChars \ {"_"} => k[i] = "_"
                /\ s3Key[w] = [prefix |-> "videos/", safeTitle |-> k,
                               videoId |-> CurId(w), ext |-> ".mp4"]

\* C17 witness: a title longer than 100 with characters to replace among its
\* first 100 got its key.
C17_Witness ==
    /\ s3Key["w1"] # NoKey
    /\ Len(CurBody("w1").title) > 100
    /\ Len(s3Key["w1"].safeTitle) = 100
    /\ "/" \in Range(CurBody("w1").title)
    /\ "/" \notin Range(s3Key["w1"].safeTitle)

\* C18: the put is attempted only after the upload of the record's payload to
\* its key completed in the same processing: a record in the table has its
\* object in the bucket, and a processing whose fetch failed attempts no put.
C18_CommitAfterUpload ==
    /\ \A v \in VideoIds : table[v].present => objects[table[v].s3Key] >= 1
    /\ \A w \in Workers :
          /\ (pc[w] = "insert" \/ obs[w].inserts > 0) =>
                /\ obs[w].uploadedBy # <<>>
                /\ objects[s3Key[w]] >= 1
          /\ (pc[w] = "catch" /\ err[w].kind \in FetchErrors) => obs[w].inserts = 0

\* C18 witness: a record was written after the upload by the second strategy.
C18_Witness ==
    /\ obs["w1"].put = "ok"
    /\ obs["w1"].uploadedBy = <<"ios,web">>
    /\ table[CurId("w1")].by = ThisRun("w1")

\* C19: the put alone keeps the record single: a worker whose lookup found no
\* record and which reaches the put when a record exists leaves the table as
\* it is.
C19_PutGuardsAlone ==
    [][\A w \in Workers :
          (pc[w] = "insert" /\ pc'[w] # "insert" /\ obs[w].lookedUp = "absent"
              /\ table[CurId(w)].present) => table' = table]_vars

\* C19 witness: a worker whose lookup found nothing fetched and uploaded, and
\* its put was rejected because the other worker had written the record.
C19_Witness ==
    /\ obs["w2"].lookedUp = "absent"
    /\ obs["w2"].uploadedBy # <<>>
    /\ obs["w2"].put = "rejected"
    /\ table[CurId("w2")].by[1] = "w1"

\* C20: every key of the bucket receives at most one completed upload.
C20_WriteOncePerKey == \A k \in DOMAIN objects : objects[k] <= 1


\* C21: an invocation that has ended, by returning or by raising, has logged
\* BatchStart first and BatchComplete last, whatever its batch held.
C21_BatchBracketed ==
    \A w \in Workers :
        pc[w] \in {"returned", "raised"} => batchLog[w] = <<"BatchStart", "BatchComplete">>

OutcomeCounters(w) ==
    {i \in 1..Len(obs[w].metrics) : obs[w].metrics[i] \in {"VideosDownloaded", "DownloadFailures"}}

\* C22: an item that attempted a fetch and whose processing is over has
\* caused exactly one outcome counter, VideosDownloaded or DownloadFailures,
\* and never both.
C22_OneOutcomeCounter ==
    \A w \in Workers :
        (Ended(w) /\ pc[w] = "loop" /\ obs[w].spawned # <<>>) =>
            Cardinality(OutcomeCounters(w)) = 1

\* C26: an item reported as a failure (DownloadFailures, DownloadError) has no
\* record inserted by the processing that reports it.
C26_FailureMeansNoRecord ==
    \A w \in Workers :
        ("DownloadFailures" \in Range(obs[w].metrics) \/ "DownloadError" \in Range(obs[w].events)) =>
            /\ obs[w].put # "ok"
            /\ (CurBody(w).kind = "ok" /\ table[CurId(w)].present) =>
                  table[CurId(w)].by # ThisRun(w)


\* the records of the batch before the current one have all ended
EarlierEnded(w) ==
    Len(outcome[w]) = IF pc[w] \in {"loop", "catch", "returned", "raised"}
                      THEN idx[w] ELSE idx[w] - 1

\* C23: the records of a batch are processed one after the other: while a
\* record is being processed every record before it has ended and none after
\* it has started, the subprocess runs only in the attempt of the current
\* record, and a temporary payload file exists only while that attempt is
\* uploading it.
C23_Sequential ==
    \A w \in Workers :
        Processing(w) =>
            /\ EarlierEnded(w)
            /\ tempFile[w] => pc[w] = "upload"
            /\ pc[w] \in {"running", "upload"} =>
                  /\ attempt[w].client = clientStrategies[strat[w]]
                  /\ Len(obs[w].spawned) = strat[w]

\* C23 witness: the second record of a batch is being fetched after the
\* first one ended.
C23_Witness ==
    /\ idx["w1"] = 2
    /\ pc["w1"] = "upload"
    /\ tempFile["w1"]
    /\ Len(outcome["w1"]) = 1


WholeOrAbsent == {"none", "old", "new"}

\* C24: the file at the local cookie path is absent or a whole copy of the
\* cookie object, the earlier one or the new one, in every state and at every
\* moment of a refresh, one that fails midway included; it is absent exactly
\* when no cookie file exists.
C24_LocalCopyWhole ==
    \A w \in Workers :
        /\ cookieData[w] \in WholeOrAbsent
        /\ cookieData[w] = "none" <=> cookie[w] = NoCookie
        /\ attempt[w].localSeen \subseteq WholeOrAbsent

\* C24 witness: a refresh over an existing copy failed while streaming, and
\* the earlier copy is still in place.
C24_Witness ==
    /\ attempt["w1"].refresh = "streamFailed"
    /\ attempt["w1"].cookieBefore >= COOKIE_MAX_AGE_HOURS
    /\ cookieData["w1"] = "old"


NoRepeat(q) == \A i, j \in 1..Len(q) : q[i] = q[j] => i = j

\* what one record has caused: at most one lookup, at most four subprocesses
\* and none of a strategy twice, at most one put
WithinBudget(w) ==
    /\ obs[w].lookups <= 1
    /\ Len(obs[w].spawned) <= 4
    /\ NoRepeat(obs[w].spawned)
    /\ obs[w].inserts <= 1
    /\ obs[w].uploadsIssued <= Len(obs[w].spawned)

\* C25: there is no retry besides the strategy fallback: a handler invocation
\* whose calls all return ends, by returning or raising, and each record
\* causes at most one lookup, at most four subprocesses, one for a strategy,
\* and at most one put.
C25_TerminatesWithinBudget ==
    /\ [](\A w \in Workers : WithinBudget(w))
    /\ (pc["w1"] = "loop") ~> (pc["w1"] \in {"returned", "raised"})

\* C25 witness: a record used all four strategies, the last one reached the
\* put, and the invocation returned.
C25_Witness ==
    /\ pc["w1"] = "returned"
    /\ Len(obs["w1"].spawned) = 4
    /\ obs["w1"].inserts = 1
    /\ obs["w1"].lookups = 1

\* C27: a failed upload is a failed attempt: the temporary file is removed,
\* and downloadToS3 goes on to the next strategy, which spawns the subprocess
\* again, or, after the last strategy, throws the upload error to the handler.
C27_UploadFailureIsAttemptFailure ==
    [][\A w \in Workers :
          (pc[w] = "upload" /\ attempt'[w].upload = "failed") =>
              /\ ~tempFile'[w]
              /\ objects' = objects
              /\ IF strat[w] < Len(clientStrategies)
                 THEN /\ strat'[w] = strat[w] + 1
                      /\ pc'[w] = "download"
                 ELSE /\ pc'[w] = "catch"
                      /\ err'[w] = Error("UploadFailed", "android_creator")]_vars

\* C27 witness: the upload of the first strategy failed and the subprocess of
\* the second one is running.
C27_Witness ==
    /\ pc["w1"] = "running"
    /\ obs["w1"].spawned = <<"ios", "ios,web">>
    /\ obs["w1"].uploadsIssued = 1
    /\ obs["w1"].uploadedBy = <<>>

====
